---- MODULE Spec2Model ----
(***************************************************************************)
(* Model of chip::System::WakeEvent (src/system/WakeEvent.cpp): the wake   *)
(* primitive of the socket multiplexer, in its four build variants         *)
(* (anonymous pipe, named FIFO, eventfd, Zephyr eventfd).                  *)
(*                                                                         *)
(* One handle is modelled together with the threads that use it: the       *)
(* thread that opens and closes it, one consumer (the multiplexer thread,  *)
(* the only caller of Confirm) and NumProducers producers calling Notify.  *)
(* Every system call is one atomic step, so that the interleavings of the  *)
(* threads are those of the individual read and write calls.               *)
(*                                                                         *)
(* Two further specifications share the module: SpecTwo, two handles of    *)
(* one build that are open at the same time, and SpecWiFi, the network     *)
(* store of NuttxWiFiDriver                                                *)
(* (src/platform/Linux/NetworkCommissioningWiFiDriverNuttx.cpp).           *)
(***************************************************************************)
EXTENDS Integers, FiniteSets, Sequences, TLC

----------------------------------------------------------------------------
(* Bounds of the model *)

\* number of producer threads
NumProducers == 2
\* capacity in bytes of the kernel buffer of a pipe or FIFO (scaled down)
PipeCap == 258
\* largest value an eventfd counter can hold (stands for 0xfffffffffffffffe)
EfdMax == 3
\* the history counts the reads of one Confirm up to this number
ReadsCap == 3
\* sizeof(WiFiNetwork::ssid) (scaled down)
SsidSize == 2
\* sizeof(WiFiNetwork::credentials) (scaled down)
CredSize == 1

(* Constants of the program *)

\* uint8_t buffer[128] in Confirm
BufSize == 128
\* ::write(mWriteFD, &byte, 1)
NotifyBytes == 1
\* uint64_t value = 1 / eventfd_write(eventFd, 1)
WriteEventValue == 1
\* ::eventfd(0, 0): the initial value of the counter
EventfdInitval == 0

Producers == 1 .. NumProducers

\* the build variants (CHIP_SYSTEM_CONFIG_USE_POSIX_PIPE,
\* CHIP_SYSTEM_CONFIG_WAKE_EVENT_USE_FIFO, CHIP_SYSTEM_CONFIG_USE_ZEPHYR_EVENTFD)
Backends == {"pipe", "fifo", "eventfd", "zephyr_eventfd"}

\* mutant: the eventfd is created as a semaphore
EventfdFlagsSemaphore == {"EFD_SEMAPHORE"}

\* ::eventfd(0, 0): the flags argument; neither EFD_NONBLOCK nor EFD_SEMAPHORE
EventfdFlags == {}

\* the descriptor numbers the kernel hands out, in the order they are created
FdOf == [read |-> 3, write |-> 4, retry |-> 5]

----------------------------------------------------------------------------
(* CHIP_ERROR values *)

CHIP_NO_ERROR == [range |-> "SDK", code |-> "NO_ERROR"]
CHIP_ERROR_OPEN_FAILED == [range |-> "SDK", code |-> "OPEN_FAILED"]
CHIP_ERROR_POSIX(e) == [range |-> "POSIX", code |-> e]
\* what Notify or Open has returned when it has not been called yet
NotReturned == [range |-> "none", code |-> "none"]

\* the errors of the multiplexer (LayerSockets); its code is not part of the
\* sources, the values are opaque
LayerError(op) == [range |-> "Layer", code |-> op]

\* errno values the failing calls can leave
ErrnoCreate == {"EMFILE"}
ErrnoMkfifo == {"EACCES"}
ErrnoOpen == {"EMFILE", "EACCES"}
ErrnoFcntl == {"EBADF"}
\* errno after ChipLogError has run between the failing call and the return:
\* the log call may have replaced it by any other non-zero value
ErrnoAny == ErrnoCreate \cup ErrnoMkfifo \cup ErrnoOpen \cup {"EIO"}

----------------------------------------------------------------------------
VARIABLES
    backend,      \* the build variant
    hstate,       \* where the handle is in its life: "init", "open", "failed",
                  \* "closing", "closed", "dead" (a VerifyOrDie ended the process)
    cstep,        \* the calls of Close that have returned
    mReadFD,      \* WakeEvent::mReadFD
    mWriteFD,     \* WakeEvent::mWriteFD (pipe and FIFO only)
    mReadWatch,   \* WakeEvent::mReadWatch: 0 is the invalid token
    openFds,      \* the descriptors open in the process
    nonblock,     \* the open descriptors that have O_NONBLOCK / EFD_NONBLOCK
    fifoExists,   \* whether kChipEventFifoPath exists in the file system
    pipeLen,      \* bytes held by the pipe or FIFO
    counter,      \* the eventfd counter
    efdFlags,     \* the flags the eventfd was created with
    watches,      \* the registrations of the multiplexer
    openResult,   \* what Open returned
    openFailure,  \* history: the call of Open that failed, or "none"
    cpc,          \* consumer: "wait", "read" (inside Confirm), "inspect"
    creads,       \* history: reads issued by the current or last Confirm
    clean,        \* history: no Notify wrote since the current Confirm began
    lastRes,      \* history: class of the last read of Confirm
    lastVal,      \* history: value fetched by the last eventfd read
    cdirect,      \* history: the current Confirm was called without readiness
    ppc,          \* producer: "idle", "write", "reopen", "rewrite"
    nret,         \* what the last Notify of each producer returned
    nerrno,       \* history: errno of the first write of the last Notify
    tmpFd,        \* Notify's local WriteFD of each producer, -1 when unset
    flag,         \* the shared flag the producers set
    seen,         \* history: the consumer inspected the flag since it was last set
    faulty,       \* reads and writes of descriptors in order can fail (SpecFault)
    notified,     \* history: a Notify returned success since Confirm last read
    unread,       \* history: successful eventfd Notify writes not yet fetched
    nopens,       \* history: opens of the FIFO by the last Notify of each producer
    nwrites,      \* history: the outcomes of the writes issued by the last
                  \* Notify of each producer, in order
    clogged,      \* history: the current Confirm logged an error
    cfailed,      \* history: a read of some Confirm has failed since Open
    closeFailed,  \* history: a ::close of Close has failed
    \* two handles of one build (SpecTwo)
    tstate,       \* each handle: "init" or "open"
    tobj,         \* the kernel object the descriptors of each handle refer to
    tdata,        \* each kernel object: the bytes it holds, or its counter
    tpc,          \* the consumer of each handle: "wait" or "read" (inside Confirm)
    tpending,     \* history: a Notify on the handle returned success since the
                  \* last read of a Confirm on the same handle
    tnotified,    \* history: Notify has been called on the handle
    \* the WiFi driver (SpecWiFi)
    mSavedNetwork,    \* NuttxWiFiDriver::mSavedNetwork
    mStagingNetwork,  \* NuttxWiFiDriver::mStagingNetwork
    kvStore,      \* the key-value store: the value stored under each key
    iterLive,     \* a WiFiNetworkIterator exists
    exhausted,    \* WiFiNetworkIterator::exhausted
    yielded,      \* history: the items Next has yielded from the iterator
    wcall,        \* history: the last call of the driver, what it returned,
                  \* whether its network id differed from the staged SSID and
                  \* whether it kept the staged network as it was
    committed     \* history: the network of the last CommitConfiguration that
                  \* returned success

vars == <<backend, hstate, cstep, mReadFD, mWriteFD, mReadWatch, openFds, nonblock,
          fifoExists, pipeLen, counter, efdFlags, watches, openResult,
          openFailure, cpc, creads, clean, lastRes, lastVal, cdirect, ppc, nret,
          nerrno, tmpFd, flag, seen, faulty, notified, unread, nopens, nwrites,
          clogged, cfailed, closeFailed, tstate, tobj, tdata, tpc, tpending,
          tnotified, mSavedNetwork, mStagingNetwork, kvStore, iterLive, exhausted,
          yielded, wcall, committed>>

hvars == <<mReadFD, mWriteFD, mReadWatch>>
kvars == <<openFds, nonblock, fifoExists, pipeLen, counter, efdFlags>>
cvars == <<cpc, creads, clean, lastRes, lastVal, cdirect, clogged, cfailed>>
pvars == <<ppc, nret, nerrno, tmpFd, nopens, nwrites>>
gvars == <<flag, seen, faulty, notified, unread>>
\* the variables of the two handles of SpecTwo
tvars == <<tstate, tobj, tdata, tpc, tpending, tnotified>>
\* the variables of the WiFi driver
wvars == <<mSavedNetwork, mStagingNetwork, kvStore, iterLive, exhausted, yielded,
           wcall, committed>>
\* what no operation of the single handle touches
ovars == <<tvars, wvars>>
\* the variables of the single handle, but for the build variant
svars == <<hstate, cstep, hvars, kvars, watches, openResult, openFailure, cvars,
           pvars, gvars, closeFailed>>

IsPipeLike == backend \in {"pipe", "fifo"}
IsEventfd == backend \in {"eventfd", "zephyr_eventfd"}

InitRest ==
    /\ hstate = "init"
    /\ cstep = 0
    /\ mReadFD = -1
    /\ mWriteFD = -1
    /\ mReadWatch = 0
    /\ openFds = {}
    /\ nonblock = {}
    /\ pipeLen = 0
    /\ counter = 0
    /\ efdFlags = {}
    /\ watches = {}
    /\ openResult = NotReturned
    /\ openFailure = "none"
    /\ cpc = "wait"
    /\ creads = 0
    /\ clean = TRUE
    /\ lastRes = "none"
    /\ lastVal = 0
    /\ cdirect = FALSE
    /\ ppc = [p \in Producers |-> "idle"]
    /\ nret = [p \in Producers |-> NotReturned]
    /\ nerrno = [p \in Producers |-> "none"]
    /\ tmpFd = [p \in Producers |-> -1]
    /\ flag = FALSE
    /\ seen = FALSE
    /\ notified = FALSE
    /\ unread = 0
    /\ nopens = [p \in Producers |-> 0]
    /\ nwrites = [p \in Producers |-> <<>>]
    /\ clogged = FALSE
    /\ cfailed = FALSE
    /\ closeFailed = FALSE

\* the handles of SpecTwo
Handles == {"A", "B"}

\* constexpr const char kChipEventFifoPath[] = "/var/wake_event_fifo"
kChipEventFifoPath == "/var/wake_event_fifo"

\* the kernel objects of SpecTwo: what each handle creates for itself, and the
\* FIFO the path names
Objects == Handles \cup {kChipEventFifoPath}

\* no handle of SpecTwo is open
InitTwoRest ==
    /\ tstate = [h \in Handles |-> "init"]
    /\ tobj = [h \in Handles |-> "none"]
    /\ tdata = [o \in Objects |-> 0]
    /\ tpc = [h \in Handles |-> "wait"]
    /\ tpending = [h \in Handles |-> FALSE]
    /\ tnotified = [h \in Handles |-> FALSE]

\* a WiFiNetwork whose members are all zero
ZeroNetwork ==
    [ssid |-> [i \in 1 .. SsidSize |-> 0], ssidLen |-> 0,
     credentials |-> [i \in 1 .. CredSize |-> 0], credentialsLen |-> 0]

\* constexpr char kWiFiSSIDKeyName[] / kWiFiCredentialsKeyName[]
kWiFiSSIDKeyName == "wifi-ssid"
kWiFiCredentialsKeyName == "wifi-pass"

\* the value of a key the store does not hold
NotFound == [found |-> FALSE, value |-> <<>>]

\* what a call of the driver has returned when none was made
NoCall == [op |-> "none", ret |-> "none", differs |-> FALSE, kept |-> TRUE]

\* the bytes in use of a network: its SSID and its credentials
View(n) ==
    [ssid |-> [i \in 1 .. n.ssidLen |-> n.ssid[i]],
     credentials |-> [i \in 1 .. n.credentialsLen |-> n.credentials[i]]]

\* a driver just constructed over an empty store
InitWiFiRest ==
    /\ mSavedNetwork = ZeroNetwork
    /\ mStagingNetwork = ZeroNetwork
    /\ kvStore = [k \in {kWiFiSSIDKeyName, kWiFiCredentialsKeyName} |-> NotFound]
    /\ iterLive = FALSE
    /\ exhausted = FALSE
    /\ yielded = 0
    /\ wcall = NoCall
    /\ committed = View(ZeroNetwork)

Init ==
    /\ backend \in Backends
    /\ fifoExists \in (IF backend = "fifo" THEN BOOLEAN ELSE {FALSE})
    /\ faulty = FALSE
    /\ InitRest
    /\ InitTwoRest
    /\ InitWiFiRest

----------------------------------------------------------------------------
(* The multiplexer (LayerSockets): its registration contract *)

\* the token StartWatchingSocket hands out
WatchToken == 1

StartWatchingSocket(ws, fd) ==
    ws \cup {[token |-> WatchToken, fd |-> fd, cb |-> "none", ctx |-> "none",
              pendingRead |-> FALSE]}

SetCallback(ws, token, cb, ctx) ==
    {IF w.token = token THEN [w EXCEPT !.cb = cb, !.ctx = ctx] ELSE w : w \in ws}

RequestCallbackOnPendingRead(ws, token) ==
    {IF w.token = token THEN [w EXCEPT !.pendingRead = TRUE] ELSE w : w \in ws}

StopWatchingSocket(ws, token) == {w \in ws : w.token # token}

----------------------------------------------------------------------------
(* WakeEvent::Open *)

\* the calls Open makes, in order, in each build variant
OpenCalls(b) ==
    CASE b = "pipe" -> <<"pipe", "nb_read", "nb_write", "start", "setcb", "reqcb">>
      [] b = "fifo" -> <<"mkfifo", "open_read", "open_write", "start", "setcb", "reqcb">>
      [] OTHER      -> <<"eventfd", "start", "setcb", "reqcb">>

Pos(seq, x) == CHOOSE i \in 1 .. Len(seq) : seq[i] = x
CallsOf(b) == {OpenCalls(b)[i] : i \in 1 .. Len(OpenCalls(b))}

\* call c of Open has returned success, when f is the call that fails
Done(b, f, c) ==
    /\ c \in CallsOf(b)
    /\ f = "none" \/ Pos(OpenCalls(b), c) < Pos(OpenCalls(b), f)

\* errno values call f can fail with
ErrnoOf(f) ==
    CASE f \in {"pipe", "eventfd"}         -> ErrnoCreate
      [] f = "mkfifo"                      -> ErrnoMkfifo
      [] f \in {"nb_read", "nb_write"}     -> ErrnoFcntl
      [] f \in {"open_read", "open_write"} -> ErrnoOpen
      [] OTHER                             -> {"none"}

\* errno as the return statement reads it: in the FIFO variant ChipLogError runs
\* between the failing open and the return
ErrnoAtReturn(f) ==
    IF f \in {"open_read", "open_write"} THEN ErrnoAny ELSE ErrnoOf(f)

\* the value Open returns when call f fails and errno is e at the return
OpenMkfifoError == CHIP_ERROR_OPEN_FAILED
\* mutant: errno is 0 when the return statement reads it
OpenFifoOpenErrorCleared(e) == CHIP_NO_ERROR
OpenFifoOpenError(e) == CHIP_ERROR_POSIX(e)
OpenCreateError(e) == CHIP_ERROR_POSIX(e)
OpenLayerError(f) == LayerError(f)

OpenReturn(f, e) ==
    CASE f = "none"                         -> CHIP_NO_ERROR
      [] f = "mkfifo"                       -> OpenMkfifoError
      [] f \in {"open_read", "open_write"}  -> OpenFifoOpenError(e)
      [] f \in {"pipe", "eventfd", "nb_read", "nb_write"} -> OpenCreateError(e)
      [] OTHER                              -> OpenLayerError(f)

\* mutant: Open does not arm the callback on pending reads
OpenWatchesUnarmed(b, f, fd) ==
    LET w1 == IF Done(b, f, "start") THEN StartWatchingSocket(watches, fd) ELSE watches
    IN  IF Done(b, f, "setcb") THEN SetCallback(w1, WatchToken, "Confirm", "this")
        ELSE w1

\* the registrations after Open's three calls to the multiplexer
OpenWatches(b, f, fd) ==
    LET w1 == IF Done(b, f, "start") THEN StartWatchingSocket(watches, fd) ELSE watches
        w2 == IF Done(b, f, "setcb") THEN SetCallback(w1, WatchToken, "Confirm", "this")
              ELSE w1
    IN  IF Done(b, f, "reqcb") THEN RequestCallbackOnPendingRead(w2, WatchToken) ELSE w2

\* Open, failing at call f with errno e at the return ("none": no call fails)
Open(f, e) ==
    /\ hstate = "init"
    /\ f \in CallsOf(backend) \cup {"none"}
    /\ e \in ErrnoAtReturn(f)
    /\ LET b == backend
           gotRead  == Done(b, f, "pipe") \/ Done(b, f, "open_read") \/ Done(b, f, "eventfd")
           gotWrite == Done(b, f, "pipe") \/ Done(b, f, "open_write")
           \* mReadFD = fds[FD_READ] is reached once both descriptors are set up;
           \* the eventfd variant assigns the result of ::eventfd directly
           stored   == Done(b, f, "nb_write") \/ Done(b, f, "open_write")
                         \/ Done(b, f, "eventfd")
       IN  /\ openFds' = (IF gotRead THEN {FdOf.read} ELSE {})
                           \cup (IF gotWrite THEN {FdOf.write} ELSE {})
           /\ nonblock' = (IF Done(b, f, "nb_read") \/ Done(b, f, "open_read")
                                \/ (Done(b, f, "eventfd") /\ "EFD_NONBLOCK" \in EventfdFlags)
                            THEN {FdOf.read} ELSE {})
                           \cup (IF Done(b, f, "nb_write") \/ Done(b, f, "open_write")
                                 THEN {FdOf.write} ELSE {})
           /\ fifoExists' = (fifoExists \/ Done(b, f, "mkfifo"))
           /\ counter' = (IF Done(b, f, "eventfd") THEN EventfdInitval ELSE counter)
           /\ efdFlags' = (IF Done(b, f, "eventfd") THEN EventfdFlags ELSE efdFlags)
           /\ mReadFD' = (IF stored THEN FdOf.read ELSE mReadFD)
           /\ mWriteFD' = (IF stored /\ IsPipeLike THEN FdOf.write ELSE mWriteFD)
           /\ mReadWatch' = (IF Done(b, f, "start") THEN WatchToken ELSE mReadWatch)
           /\ watches' = OpenWatches(b, f, FdOf.read)
    /\ openResult' = OpenReturn(f, e)
    /\ openFailure' = f
    /\ hstate' = (IF OpenReturn(f, e) = CHIP_NO_ERROR THEN "open" ELSE "failed")
    /\ UNCHANGED <<backend, cstep, pipeLen, cvars, pvars, gvars, closeFailed, ovars>>

----------------------------------------------------------------------------
(* What the kernel does on the calls the program makes *)

Min(a, b) == IF a < b THEN a ELSE b

\* errno values the program treats as "would block"
WouldBlock == {"EAGAIN", "EWOULDBLOCK"}

\* write of n bytes to a pipe or FIFO holding len bytes, through a descriptor
\* that has O_NONBLOCK (nb) or not; a write of at most PIPE_BUF bytes is atomic
PipeWrite(len, n, nb) ==
    IF len + n <= PipeCap
    THEN [blocked |-> FALSE, res |-> n, errno |-> "none", len |-> len + n]
    ELSE IF nb
    THEN [blocked |-> FALSE, res |-> -1, errno |-> "EAGAIN", len |-> len]
    ELSE [blocked |-> TRUE, res |-> -1, errno |-> "none", len |-> len]

\* read of up to size bytes from a pipe or FIFO that has a writer
PipeRead(len, size, nb) ==
    IF len > 0
    THEN [blocked |-> FALSE, res |-> Min(len, size), errno |-> "none",
          len |-> len - Min(len, size)]
    ELSE IF nb
    THEN [blocked |-> FALSE, res |-> -1, errno |-> "EAGAIN", len |-> len]
    ELSE [blocked |-> TRUE, res |-> -1, errno |-> "none", len |-> len]

\* write of value v to an eventfd whose counter is cnt
EventfdWrite(cnt, v, flags) ==
    IF cnt + v <= EfdMax
    THEN [blocked |-> FALSE, res |-> 0, errno |-> "none", counter |-> cnt + v]
    ELSE IF "EFD_NONBLOCK" \in flags
    THEN [blocked |-> FALSE, res |-> -1, errno |-> "EAGAIN", counter |-> cnt]
    ELSE [blocked |-> TRUE, res |-> -1, errno |-> "none", counter |-> cnt]

\* read of an eventfd whose counter is cnt: fetches the counter and resets it
\* (with EFD_SEMAPHORE: fetches 1 and decrements it)
EventfdRead(cnt, flags) ==
    IF cnt > 0
    THEN IF "EFD_SEMAPHORE" \in flags
         THEN [blocked |-> FALSE, res |-> 0, errno |-> "none", value |-> 1,
               counter |-> cnt - 1]
         ELSE [blocked |-> FALSE, res |-> 0, errno |-> "none", value |-> cnt,
               counter |-> 0]
    ELSE IF "EFD_NONBLOCK" \in flags
    THEN [blocked |-> FALSE, res |-> -1, errno |-> "EAGAIN", value |-> 0, counter |-> cnt]
    ELSE [blocked |-> TRUE, res |-> -1, errno |-> "none", value |-> 0, counter |-> cnt]

\* the multiplexer's zero-timeout readiness check of the read descriptor
Readable == IF IsPipeLike THEN pipeLen > 0 ELSE counter > 0

\* the multiplexer calls Confirm for the handle when its descriptor is readable
Dispatches ==
    \E w \in watches : /\ w.fd = mReadFD
                       /\ w.cb = "Confirm"
                       /\ w.pendingRead

----------------------------------------------------------------------------
(* WakeEvent::Notify *)

\* ReadEvent / WriteEvent of the eventfd variants
ReadEvent == EventfdRead(counter, efdFlags)
WriteEvent == EventfdWrite(counter, WriteEventValue, efdFlags)

\* mutant: the write of Notify carries no data
NotifyFirstWriteEmpty ==
    IF IsPipeLike THEN PipeWrite(pipeLen, 0, mWriteFD \in nonblock)
    ELSE EventfdWrite(counter, 0, efdFlags)

\* the first write of Notify
NotifyFirstWrite ==
    IF IsPipeLike THEN PipeWrite(pipeLen, NotifyBytes, mWriteFD \in nonblock)
    ELSE WriteEvent

\* mutant: "would block" is taken for an error
NotifyIsErrorStrict(r) == r.res < 0

\* Notify's test of the result of a write: an error that is not "would block"
NotifyIsError(r) == r.res < 0 /\ r.errno \notin WouldBlock

\* the outcome of a write
WriteClass(r) ==
    IF r.res >= 0 THEN "ok" ELSE IF r.errno \in WouldBlock THEN "wouldblock" ELSE "error"

\* a producer sets the shared flag and calls Notify
NotifyCall(p) ==
    /\ hstate = "open"
    /\ ppc[p] = "idle"
    \* where calls can fail, one producer is followed
    /\ faulty => p = 1
    /\ ppc' = [ppc EXCEPT ![p] = "write"]
    /\ nret' = [nret EXCEPT ![p] = NotReturned]
    /\ nerrno' = [nerrno EXCEPT ![p] = "none"]
    /\ nopens' = [nopens EXCEPT ![p] = 0]
    /\ nwrites' = [nwrites EXCEPT ![p] = <<>>]
    /\ flag' = TRUE
    /\ seen' = FALSE
    /\ UNCHANGED <<backend, hstate, cstep, hvars, kvars, watches, openResult,
                   openFailure, cvars, tmpFd, faulty, notified, unread,
                   closeFailed, ovars>>

\* Notify after its first write returned r
NotifyAfterWrite(p, r) ==
    /\ nerrno' = [nerrno EXCEPT ![p] = r.errno]
    /\ nwrites' = [nwrites EXCEPT ![p] = Append(@, WriteClass(r))]
    /\ IF NotifyIsError(r)
       THEN IF backend = "fifo"
            THEN /\ ppc' = [ppc EXCEPT ![p] = "reopen"]
                 /\ UNCHANGED <<nret, notified>>
            ELSE /\ ppc' = [ppc EXCEPT ![p] = "idle"]
                 /\ nret' = [nret EXCEPT ![p] = CHIP_ERROR_POSIX(r.errno)]
                 /\ UNCHANGED notified
       ELSE /\ ppc' = [ppc EXCEPT ![p] = "idle"]
            /\ nret' = [nret EXCEPT ![p] = CHIP_NO_ERROR]
            /\ notified' = TRUE
    /\ clean' = (cpc = "wait" \/ (clean /\ r.res < 0))
    /\ UNCHANGED <<backend, hstate, cstep, hvars, openFds, nonblock, fifoExists,
                   efdFlags, watches, openResult, openFailure, cpc, creads,
                   lastRes, lastVal, cdirect, clogged, cfailed, tmpFd, nopens,
                   flag, seen, faulty, closeFailed, ovars>>

\* ::write(mWriteFD, &byte, 1) or WriteEvent(mReadFD), and the return
NotifyWrite(p) ==
    /\ hstate = "open"
    /\ ppc[p] = "write"
    /\ LET r == NotifyFirstWrite
       IN  /\ ~r.blocked
           /\ IF IsPipeLike
              THEN /\ pipeLen' = r.len
                   /\ UNCHANGED <<counter, unread>>
              ELSE /\ counter' = r.counter
                   /\ unread' = (IF r.res >= 0 THEN unread + 1 ELSE unread)
                   /\ UNCHANGED pipeLen
           /\ NotifyAfterWrite(p, r)

\* errno values of a write or read that fails on a descriptor that is in order
ErrnoIO == {"EPIPE"}

\* the first write of Notify fails with an error that is not "would block"
NotifyWriteFault(p, e) ==
    /\ hstate = "open"
    /\ ppc[p] = "write"
    /\ e \in ErrnoIO
    /\ faulty
    /\ UNCHANGED <<pipeLen, counter, unread>>
    /\ NotifyAfterWrite(p, [blocked |-> FALSE, res |-> -1, errno |-> e])

\* the descriptor ::open hands to producer p
RetryFd(p) == FdOf.retry + p - 1

\* FIFO variant: int WriteFD = ::open(kChipEventFifoPath, O_WRONLY); without
\* O_NONBLOCK the open waits until the FIFO has a reader. ok: it succeeds;
\* e: errno at the return, after ChipLogError
NotifyReopen(p, ok, e) ==
    /\ hstate = "open"
    /\ backend = "fifo"
    /\ ppc[p] = "reopen"
    /\ e \in ErrnoAny
    /\ mReadFD \in openFds
    /\ faulty
    /\ nopens' = [nopens EXCEPT ![p] = @ + 1]
    /\ IF ok
       THEN /\ tmpFd' = [tmpFd EXCEPT ![p] = RetryFd(p)]
            /\ openFds' = openFds \cup {RetryFd(p)}
            /\ ppc' = [ppc EXCEPT ![p] = "rewrite"]
            /\ UNCHANGED nret
       ELSE /\ nret' = [nret EXCEPT ![p] = CHIP_ERROR_POSIX(e)]
            /\ ppc' = [ppc EXCEPT ![p] = "idle"]
            /\ UNCHANGED <<tmpFd, openFds>>
    /\ UNCHANGED <<backend, hstate, cstep, hvars, nonblock, fifoExists, pipeLen,
                   counter, efdFlags, watches, openResult, openFailure, cvars,
                   nerrno, nwrites, gvars, closeFailed, ovars>>

\* mutant: the result of the second write is not looked at
NotifyRetryReturnUnchecked(ok, e) == CHIP_NO_ERROR

\* what Notify returns after the write through the fresh descriptor
NotifyRetryReturn(ok, e) == IF ok THEN CHIP_NO_ERROR ELSE CHIP_ERROR_POSIX(e)

\* mutant: the fresh descriptor is left open
CloseRetryLeaked(fds, fd) == fds

\* ::close(WriteFD)
CloseRetry(fds, fd) == fds \ {fd}

\* FIFO variant: ::write(WriteFD, &byte, 1), ::close(WriteFD) and the return.
\* ok: the write succeeds; e: errno at the return, after ::close and ChipLogError
NotifyRewrite(p, ok, e) ==
    /\ hstate = "open"
    /\ backend = "fifo"
    /\ ppc[p] = "rewrite"
    /\ e \in ErrnoAny
    /\ faulty
    /\ LET r == PipeWrite(pipeLen, NotifyBytes, tmpFd[p] \in nonblock)
       IN  /\ ~r.blocked
           /\ pipeLen' = (IF ok THEN r.len ELSE pipeLen)
           /\ clean' = (cpc = "wait" \/ (clean /\ ~ok))
    /\ nret' = [nret EXCEPT ![p] = NotifyRetryReturn(ok, e)]
    /\ nwrites' = [nwrites EXCEPT ![p] = Append(@, IF ok THEN "ok" ELSE "error")]
    /\ notified' = (notified \/ ok)
    /\ openFds' = CloseRetry(openFds, tmpFd[p])
    /\ tmpFd' = [tmpFd EXCEPT ![p] = -1]
    /\ ppc' = [ppc EXCEPT ![p] = "idle"]
    /\ UNCHANGED <<backend, hstate, cstep, hvars, nonblock, fifoExists, counter,
                   efdFlags, watches, openResult, openFailure, cpc, creads,
                   lastRes, lastVal, cdirect, clogged, cfailed, nerrno, nopens,
                   flag, seen, faulty, unread, closeFailed, ovars>>

----------------------------------------------------------------------------
(* WakeEvent::Confirm *)

\* the multiplexer finds the descriptor readable and calls Confirm
ConsumerWake ==
    /\ hstate = "open"
    /\ cpc = "wait"
    /\ Readable
    /\ Dispatches
    /\ cpc' = "read"
    /\ creads' = 0
    /\ clean' = TRUE
    /\ cdirect' = FALSE
    /\ clogged' = FALSE
    /\ UNCHANGED <<backend, hstate, cstep, hvars, kvars, watches, openResult,
                   openFailure, lastRes, lastVal, cfailed, pvars, gvars,
                   closeFailed, ovars>>

\* Confirm is called although the descriptor is not readable (a second Confirm
\* right after a first)
ConfirmDirect ==
    /\ hstate = "open"
    /\ cpc = "wait"
    /\ ~Readable
    /\ cpc' = "read"
    /\ creads' = 0
    /\ clean' = TRUE
    /\ cdirect' = TRUE
    /\ clogged' = FALSE
    /\ UNCHANGED <<backend, hstate, cstep, hvars, kvars, watches, openResult,
                   openFailure, lastRes, lastVal, cfailed, pvars, gvars,
                   closeFailed, ovars>>

\* mutant: no result of a read is taken for an error
ConfirmIsErrorNever(r) == FALSE

\* Confirm's test of the result of a read: an error that is not "would block"
ConfirmIsError(r) == r.res < 0 /\ r.errno \notin WouldBlock

\* mutant: Confirm reads once
ConfirmReadsOnce(r) == FALSE

\* mutant: the loop test compares with > for ==
ConfirmReadsAgainGreater(r) == r.res > BufSize

\* } while (res == sizeof(buffer))
ConfirmReadsAgain(r) == r.res = BufSize

\* the class of a read result
ResClass(r) ==
    IF r.res < 0 THEN (IF r.errno \in WouldBlock THEN "wouldblock" ELSE "error")
    ELSE IF r.res = BufSize THEN "full" ELSE "short"

\* Confirm after a read of the pipe or FIFO returned r
ConfirmAfterRead(r) ==
    /\ creads' = Min(creads + 1, ReadsCap)
    /\ lastRes' = ResClass(r)
    /\ notified' = FALSE
    /\ cpc' = (IF ConfirmIsError(r) THEN "inspect"
               ELSE IF ConfirmReadsAgain(r) THEN "read" ELSE "inspect")
    \* ChipLogError(chipSystemLayer, "System wake event confirm failed: ...")
    /\ clogged' = ConfirmIsError(r)
    /\ cfailed' = (cfailed \/ ResClass(r) = "error")
    /\ UNCHANGED <<backend, hstate, cstep, hvars, openFds, nonblock, fifoExists,
                   efdFlags, watches, openResult, openFailure, clean, cdirect,
                   pvars, flag, seen, faulty, closeFailed, ovars>>

\* one ::read(mReadFD, buffer, sizeof(buffer)) of the loop of Confirm
ConfirmReadPipe ==
    /\ hstate = "open"
    /\ IsPipeLike
    /\ cpc = "read"
    /\ LET r == PipeRead(pipeLen, BufSize, mReadFD \in nonblock)
       IN  /\ ~r.blocked
           /\ pipeLen' = r.len
           /\ ConfirmAfterRead(r)
    /\ UNCHANGED <<counter, lastVal, unread>>

\* Confirm after ReadEvent returned r
ConfirmAfterReadEvent(r) ==
    /\ creads' = Min(creads + 1, ReadsCap)
    /\ lastRes' = (IF r.res >= 0 THEN "value" ELSE ResClass(r))
    /\ lastVal' = r.value
    /\ notified' = FALSE
    /\ cpc' = "inspect"
    /\ clogged' = ConfirmIsError(r)
    /\ cfailed' = (cfailed \/ ResClass(r) = "error")
    /\ UNCHANGED <<backend, hstate, cstep, hvars, openFds, nonblock, fifoExists,
                   efdFlags, pipeLen, watches, openResult, openFailure, clean,
                   cdirect, pvars, flag, seen, faulty, closeFailed, ovars>>

\* the single ReadEvent(mReadFD) of Confirm
ConfirmReadEvent ==
    /\ hstate = "open"
    /\ IsEventfd
    /\ cpc = "read"
    /\ LET r == ReadEvent
       IN  /\ ~r.blocked
           /\ counter' = r.counter
           /\ unread' = unread - r.value
           /\ ConfirmAfterReadEvent(r)

\* a read of Confirm fails with an error that is not "would block"
ConfirmReadFault(e) ==
    /\ hstate = "open"
    /\ cpc = "read"
    /\ e \in ErrnoIO
    /\ faulty
    /\ LET r == [blocked |-> FALSE, res |-> -1, errno |-> e, value |-> 0]
       IN  IF IsPipeLike
           THEN /\ ConfirmAfterRead(r)
                /\ UNCHANGED <<pipeLen, counter, lastVal, unread>>
           ELSE /\ ConfirmAfterReadEvent(r)
                /\ UNCHANGED <<counter, unread>>

\* back from Confirm, the consumer inspects the shared flag
ConsumerInspect ==
    /\ hstate = "open"
    /\ cpc = "inspect"
    /\ cpc' = "wait"
    /\ seen' = TRUE
    \* the history of the Confirm that returned is dropped
    /\ creads' = 0
    /\ clean' = TRUE
    /\ lastRes' = "none"
    /\ lastVal' = 0
    /\ cdirect' = FALSE
    /\ clogged' = FALSE
    /\ UNCHANGED <<backend, hstate, cstep, hvars, kvars, watches, openResult,
                   openFailure, cfailed, pvars, flag, faulty, notified, unread,
                   closeFailed, ovars>>

----------------------------------------------------------------------------
(* WakeEvent::Close *)

\* mutant: Close closes the read descriptor before it stops the watch
CloseCallsCloseFirst(b) ==
    IF b \in {"pipe", "fifo"} THEN <<"close_read", "stop", "close_write">>
    ELSE <<"close_read", "stop">>

\* mutant: Close does not close the write descriptor
CloseCallsReadOnly(b) == <<"stop", "close_read">>

\* the calls Close makes, in order
CloseCalls(b) ==
    IF b \in {"pipe", "fifo"} THEN <<"stop", "close_read", "close_write">>
    ELSE <<"stop", "close_read">>

\* no thread is inside Notify or Confirm
Quiescent == cpc = "wait" /\ \A p \in Producers : ppc[p] = "idle"

\* mutant: a failed ::close is passed over
VerifyOrDieSkipped(ok, s) == s

\* VerifyOrDie(::close(fd) == 0): the state s Close goes on to, or the end of the
\* process
VerifyOrDie(ok, s) == IF ok THEN s ELSE "dead"

\* ::close(fd) returned 0
CloseFd(fd) ==
    /\ openFds' = openFds \ {fd}
    /\ nonblock' = nonblock \ {fd}
    \* the data of a pipe is gone with its last descriptor
    /\ pipeLen' = (IF openFds \ {fd} = {} THEN 0 ELSE pipeLen)

\* the next call of Close; ok: a ::close returns 0. The assignments of -1 that
\* end Close belong to the step of its last call.
CloseStep(ok) ==
    /\ \/ hstate = "open" /\ Quiescent
       \/ hstate = "closing"
    /\ LET calls == CloseCalls(backend)
           c     == calls[cstep + 1]
           last  == cstep + 1 = Len(calls)
       IN  /\ CASE c = "stop" ->
                     /\ ok
                     /\ watches' = StopWatchingSocket(watches, mReadWatch)
                     /\ mReadWatch' = 0
                     /\ UNCHANGED <<openFds, nonblock, pipeLen>>
                [] c = "close_read" ->
                     /\ IF ok THEN CloseFd(mReadFD)
                        ELSE UNCHANGED <<openFds, nonblock, pipeLen>>
                     /\ UNCHANGED <<watches, mReadWatch>>
                [] OTHER ->
                     /\ IF ok THEN CloseFd(mWriteFD)
                        ELSE UNCHANGED <<openFds, nonblock, pipeLen>>
                     /\ UNCHANGED <<watches, mReadWatch>>
           /\ hstate' = VerifyOrDie(ok, IF last THEN "closed" ELSE "closing")
           /\ closeFailed' = (closeFailed \/ ~ok)
           /\ cstep' = (IF ok THEN cstep + 1 ELSE cstep)
           /\ mReadFD' = (IF ok /\ last THEN -1 ELSE mReadFD)
           /\ mWriteFD' = (IF ok /\ last /\ IsPipeLike THEN -1 ELSE mWriteFD)
    /\ UNCHANGED <<backend, fifoExists, counter, efdFlags, openResult, openFailure,
                   cvars, pvars, gvars, ovars>>

----------------------------------------------------------------------------
Next ==
    \/ \E f \in {"none", "pipe", "nb_read", "nb_write", "mkfifo", "open_read",
                 "open_write", "eventfd", "start", "setcb", "reqcb"} :
         \E e \in ErrnoAny \cup ErrnoFcntl \cup {"none"} : Open(f, e)
    \/ \E p \in Producers : NotifyCall(p)
    \/ \E p \in Producers : NotifyWrite(p)
    \/ ConsumerWake
    \/ ConfirmDirect
    \/ ConfirmReadPipe
    \/ ConfirmReadEvent
    \/ ConsumerInspect
    \/ \E ok \in BOOLEAN : CloseStep(ok)

Spec == Init /\ [][Next]_vars

\* the same program where, in addition, reads and writes of descriptors that
\* are in order can fail
InitFault ==
    /\ backend \in Backends
    /\ fifoExists \in (IF backend = "fifo" THEN BOOLEAN ELSE {FALSE})
    /\ faulty = TRUE
    /\ InitRest
    /\ InitTwoRest
    /\ InitWiFiRest

NextFault ==
    \/ Next
    \/ \E p \in Producers, e \in ErrnoIO : NotifyWriteFault(p, e)
    \/ \E p \in Producers, ok \in BOOLEAN, e \in ErrnoAny : NotifyReopen(p, ok, e)
    \/ \E p \in Producers, ok \in BOOLEAN, e \in ErrnoAny : NotifyRewrite(p, ok, e)
    \/ \E e \in ErrnoIO : ConfirmReadFault(e)

SpecFault == InitFault /\ [][NextFault]_vars

----------------------------------------------------------------------------
(* Two handles of one build, open at the same time. Each is opened once, with
   no call failing, and then used by its own producers and its own consumer;
   a Notify is its one write. *)

\* the kernel object the descriptors of handle h refer to: ::pipe and ::eventfd
\* make a new object at every call, ::open(kChipEventFifoPath, ...) opens the
\* one FIFO that has this name
ObjectOf(b, h) == IF b = "fifo" THEN kChipEventFifoPath ELSE h

\* the multiplexer's zero-timeout readiness check of the read descriptor of h
TwoReadable(h) == tstate[h] = "open" /\ tdata[tobj[h]] > 0

\* WakeEvent::Open on handle h, every call succeeding
TwoOpen(h) ==
    /\ tstate[h] = "init"
    /\ tstate' = [tstate EXCEPT ![h] = "open"]
    /\ tobj' = [tobj EXCEPT ![h] = ObjectOf(backend, h)]
    \* a new eventfd starts at its initval, a new pipe is empty; the FIFO is
    \* the one that exists, with what it holds
    /\ tdata' = (IF backend = "fifo" THEN tdata
                 ELSE [tdata EXCEPT ![ObjectOf(backend, h)] =
                          IF IsEventfd THEN EventfdInitval ELSE 0])
    /\ UNCHANGED <<tpc, tpending, tnotified, backend, svars, wvars>>

\* WakeEvent::Notify on handle h: the write and the return
TwoNotify(h) ==
    /\ tstate[h] = "open"
    /\ LET o == tobj[h]
           r == IF IsPipeLike THEN PipeWrite(tdata[o], NotifyBytes, TRUE)
                ELSE EventfdWrite(tdata[o], WriteEventValue, EventfdFlags)
       IN  /\ ~r.blocked
           /\ tdata' = [tdata EXCEPT ![o] = IF IsPipeLike THEN r.len ELSE r.counter]
           /\ tpending' = [tpending EXCEPT ![h] = @ \/ ~NotifyIsError(r)]
    /\ tnotified' = [tnotified EXCEPT ![h] = TRUE]
    /\ UNCHANGED <<tstate, tobj, tpc, backend, svars, wvars>>

\* the multiplexer finds the read descriptor of h readable and calls Confirm
TwoConfirmCall(h) ==
    /\ tstate[h] = "open"
    /\ tpc[h] = "wait"
    /\ TwoReadable(h)
    /\ tpc' = [tpc EXCEPT ![h] = "read"]
    /\ UNCHANGED <<tstate, tobj, tdata, tpending, tnotified, backend, svars, wvars>>

\* WakeEvent::Confirm on handle h: one read, and the return when it is the last
TwoConfirmRead(h) ==
    /\ tstate[h] = "open"
    /\ tpc[h] = "read"
    /\ LET o == tobj[h]
           r == IF IsPipeLike THEN PipeRead(tdata[o], BufSize, TRUE)
                ELSE EventfdRead(tdata[o], EventfdFlags)
       IN  /\ ~r.blocked
           /\ tdata' = [tdata EXCEPT ![o] = IF IsPipeLike THEN r.len ELSE r.counter]
           /\ tpc' = [tpc EXCEPT ![h] =
                         IF IsPipeLike /\ ~ConfirmIsError(r) /\ ConfirmReadsAgain(r)
                         THEN "read" ELSE "wait"]
    /\ tpending' = [tpending EXCEPT ![h] = FALSE]
    /\ UNCHANGED <<tstate, tobj, tnotified, backend, svars, wvars>>

InitTwo ==
    /\ backend \in Backends
    /\ fifoExists = FALSE
    /\ faulty = FALSE
    /\ InitRest
    /\ InitTwoRest
    /\ InitWiFiRest

NextTwo ==
    \/ \E h \in Handles : TwoOpen(h)
    \/ \E h \in Handles : TwoNotify(h)
    \/ \E h \in Handles : TwoConfirmCall(h)
    \/ \E h \in Handles : TwoConfirmRead(h)

SpecTwo == InitTwo /\ [][NextTwo]_vars

----------------------------------------------------------------------------
(* NuttxWiFiDriver: the staged and the saved network, the key-value store that
   keeps the saved network over a restart, and the iterator over the networks *)

\* a byte string longer than a buffer of n bytes
TooLong(n) == [i \in 1 .. n + 1 |-> 1]

\* the SSIDs and the credentials the calls are made with
SsidInputs == {<<>>, <<1>>, <<2>>, <<1, 2>>, TooLong(SsidSize)}
CredInputs == {<<5>>, <<6>>, TooLong(CredSize)}

\* the error of a failed Put of the key-value store; the store is not part of
\* the sources, the value is opaque
KvsError(key) == [range |-> "KVS", code |-> key]

\* memcpy(buf, data.data(), data.size())
Memcpy(buf, data) ==
    [i \in 1 .. Len(buf) |-> IF i <= Len(data) THEN data[i] ELSE buf[i]]

\* the first n bytes of a buffer: what Put(key, buf, n) stores
Bytes(buf, n) == [i \in 1 .. n |-> buf[i]]

\* mutant: the SSIDs are compared by length only
NetworkMatchLengthOnly(network, networkId) == Len(networkId) = network.ssidLen

\* NuttxWiFiDriver::NetworkMatch
NetworkMatch(network, networkId) ==
    /\ Len(networkId) = network.ssidLen
    /\ \A i \in 1 .. network.ssidLen : networkId[i] = network.ssid[i]

\* the status AddOrUpdateNetwork returns
AddOrUpdateStatus(ssid, credentials) ==
    IF ~(mStagingNetwork.ssidLen = 0 \/ NetworkMatch(mStagingNetwork, ssid))
    THEN "kBoundsExceeded"
    ELSE IF Len(credentials) > CredSize THEN "kOutOfRange"
    ELSE IF Len(ssid) > SsidSize THEN "kOutOfRange"
    ELSE "kSuccess"

\* NuttxWiFiDriver::AddOrUpdateNetwork
AddOrUpdateNetwork(ssid, credentials) ==
    /\ ssid \in SsidInputs
    /\ credentials \in CredInputs
    /\ LET st == AddOrUpdateStatus(ssid, credentials)
       IN  /\ mStagingNetwork' =
                 (IF st = "kSuccess"
                  THEN [ssid |-> Memcpy(mStagingNetwork.ssid, ssid),
                        ssidLen |-> Len(ssid),
                        credentials |-> Memcpy(mStagingNetwork.credentials, credentials),
                        credentialsLen |-> Len(credentials)]
                  ELSE mStagingNetwork)
           /\ wcall' = [op |-> "AddOrUpdateNetwork", ret |-> st,
                        differs |-> (mStagingNetwork.ssidLen # 0
                                       /\ View(mStagingNetwork).ssid # ssid),
                        kept |-> (mStagingNetwork' = mStagingNetwork)]
    /\ UNCHANGED <<mSavedNetwork, kvStore, iterLive, exhausted, yielded, committed,
                   backend, svars, tvars>>

\* NuttxWiFiDriver::RemoveNetwork
RemoveNetwork(networkId) ==
    /\ networkId \in SsidInputs
    /\ LET found == NetworkMatch(mStagingNetwork, networkId)
       IN  /\ mStagingNetwork' =
                 (IF found THEN [mStagingNetwork EXCEPT !.ssidLen = 0]
                  ELSE mStagingNetwork)
           /\ wcall' = [op |-> "RemoveNetwork",
                        ret |-> IF found THEN "kSuccess" ELSE "kNetworkIDNotFound",
                        differs |-> ~found,
                        kept |-> (mStagingNetwork' = mStagingNetwork)]
    /\ UNCHANGED <<mSavedNetwork, kvStore, iterLive, exhausted, yielded, committed,
                   backend, svars, tvars>>

\* NuttxWiFiDriver::ReorderNetwork: with one network, a no-op
ReorderNetwork(networkId) ==
    /\ networkId \in SsidInputs
    /\ wcall' = [op |-> "ReorderNetwork",
                 ret |-> IF NetworkMatch(mStagingNetwork, networkId)
                         THEN "kSuccess" ELSE "kNetworkIDNotFound",
                 differs |-> ~NetworkMatch(mStagingNetwork, networkId),
                 kept |-> TRUE]
    /\ UNCHANGED <<mSavedNetwork, mStagingNetwork, kvStore, iterLive, exhausted,
                   yielded, committed, backend, svars, tvars>>

\* the store after Put(key, value), which succeeds (ok) or fails and stores
\* nothing
Put(store, key, value, ok) ==
    IF ok THEN [store EXCEPT ![key] = [found |-> TRUE, value |-> value]] ELSE store

\* NuttxWiFiDriver::CommitConfiguration; ok1, ok2: the first and the second Put
\* succeed
CommitConfiguration(ok1, ok2) ==
    LET s1 == Put(kvStore, kWiFiSSIDKeyName,
                  Bytes(mStagingNetwork.ssid, mStagingNetwork.ssidLen), ok1)
        s2 == Put(s1, kWiFiCredentialsKeyName,
                  Bytes(mStagingNetwork.credentials, mStagingNetwork.credentialsLen), ok2)
        err == IF ~ok1 THEN KvsError(kWiFiSSIDKeyName)
               ELSE IF ~ok2 THEN KvsError(kWiFiCredentialsKeyName)
               ELSE CHIP_NO_ERROR
    IN  /\ kvStore' = (IF ok1 THEN s2 ELSE kvStore)
        /\ mSavedNetwork' = (IF err = CHIP_NO_ERROR THEN mStagingNetwork
                             ELSE mSavedNetwork)
        /\ committed' = (IF err = CHIP_NO_ERROR THEN View(mStagingNetwork)
                         ELSE committed)
        /\ wcall' = [op |-> "CommitConfiguration", ret |-> err, differs |-> FALSE,
                     kept |-> (mSavedNetwork' = mSavedNetwork)]
        /\ UNCHANGED <<mStagingNetwork, iterLive, exhausted, yielded, backend,
                       svars, tvars>>

\* NuttxWiFiDriver::RevertConfiguration
RevertConfiguration ==
    /\ mStagingNetwork' = mSavedNetwork
    /\ wcall' = [op |-> "RevertConfiguration", ret |-> CHIP_NO_ERROR,
                 differs |-> FALSE, kept |-> (mStagingNetwork' = mStagingNetwork)]
    /\ UNCHANGED <<mSavedNetwork, kvStore, iterLive, exhausted, yielded, committed,
                   backend, svars, tvars>>

\* NuttxWiFiDriver::Init on a driver whose members are saved and staged, over
\* the store: the members after it. Get writes the value it finds into the
\* buffer it is given.
DriverInit(saved, staged, store) ==
    LET cred == store[kWiFiCredentialsKeyName]
        ssid == store[kWiFiSSIDKeyName]
    IN  IF cred = NotFound
        THEN [saved |-> saved, staged |-> staged]
        ELSE LET s1 == [saved EXCEPT !.credentials = Memcpy(@, cred.value)]
             IN  IF ssid = NotFound
                 THEN [saved |-> s1, staged |-> staged]
                 ELSE LET s2 == [s1 EXCEPT !.ssid = Memcpy(@, ssid.value),
                                           !.credentialsLen = Len(cred.value),
                                           !.ssidLen = Len(ssid.value)]
                      IN  [saved |-> s2, staged |-> s2]

\* the process restarts: the driver is constructed anew and Init runs; the
\* store keeps what it holds
Restart ==
    /\ LET d == DriverInit(ZeroNetwork, ZeroNetwork, kvStore)
       IN  /\ mSavedNetwork' = d.saved
           /\ mStagingNetwork' = d.staged
    /\ iterLive' = FALSE
    /\ exhausted' = FALSE
    /\ yielded' = 0
    /\ wcall' = [op |-> "Init", ret |-> CHIP_NO_ERROR, differs |-> FALSE,
                 kept |-> FALSE]
    /\ UNCHANGED <<kvStore, committed, backend, svars, tvars>>

\* WiFiNetworkIterator::Count
Count == IF mStagingNetwork.ssidLen = 0 THEN 0 ELSE 1

\* GetNetworks: a new iterator over the networks of the driver
GetNetworks ==
    /\ ~iterLive
    /\ iterLive' = TRUE
    /\ exhausted' = FALSE
    /\ yielded' = 0
    /\ UNCHANGED <<mSavedNetwork, mStagingNetwork, kvStore, wcall, committed,
                   backend, svars, tvars>>

\* WiFiNetworkIterator::Next: exhausted after the call
NextExhausts(ex, len) == ex \/ len # 0

\* WiFiNetworkIterator::Next
IterNext ==
    /\ iterLive
    /\ LET yields == ~(exhausted \/ mStagingNetwork.ssidLen = 0)
       IN  /\ yielded' = (IF yields THEN yielded + 1 ELSE yielded)
           /\ wcall' = [op |-> "Next", ret |-> yields, differs |-> FALSE, kept |-> TRUE]
    /\ exhausted' = NextExhausts(exhausted, mStagingNetwork.ssidLen)
    /\ UNCHANGED <<mSavedNetwork, mStagingNetwork, kvStore, iterLive, committed,
                   backend, svars, tvars>>

\* WiFiNetworkIterator::Release
IterRelease ==
    /\ iterLive
    /\ iterLive' = FALSE
    /\ UNCHANGED <<mSavedNetwork, mStagingNetwork, kvStore, exhausted, yielded,
                   wcall, committed, backend, svars, tvars>>

InitWiFi ==
    /\ backend = "pipe"
    /\ fifoExists = FALSE
    /\ faulty = FALSE
    /\ InitRest
    /\ InitTwoRest
    /\ InitWiFiRest

NextWiFi ==
    \/ \E ssid \in SsidInputs, credentials \in CredInputs :
          AddOrUpdateNetwork(ssid, credentials)
    \/ \E networkId \in SsidInputs : RemoveNetwork(networkId)
    \/ \E networkId \in SsidInputs : ReorderNetwork(networkId)
    \/ \E ok1, ok2 \in BOOLEAN : CommitConfiguration(ok1, ok2)
    \/ RevertConfiguration
    \/ Restart
    \/ GetNetworks
    \/ IterNext
    \/ IterRelease

SpecWiFi == InitWiFi /\ [][NextWiFi]_vars

----------------------------------------------------------------------------
(* Properties *)

Returned(p) == ppc[p] = "idle" /\ nret[p] = CHIP_NO_ERROR

\* C1: no missed wake. A Notify that returned success since the last read of
\* Confirm leaves the descriptor readable; and the consumer is never parked in
\* the multiplexer with the flag set and not yet inspected, every producer back
\* from a successful Notify, and the descriptor not readable (or not dispatched).
C1_NoMissedWake ==
    hstate = "open" =>
       /\ notified => Readable
       /\ (flag /\ ~seen /\ cpc = "wait" /\ \A p \in Producers : Returned(p))
             => (Readable /\ Dispatches)

\* every producer has notified, no Confirm has inspected the flag yet
C1_Witness ==
    /\ hstate = "open" /\ flag /\ ~seen /\ cpc = "wait"
    /\ \A p \in Producers : Returned(p)
    /\ Readable

\* C2: coalescing. With Notify calls and no Confirm since, the descriptor is
\* readable; when a Confirm that no Notify wrote into has returned, it is not
\* readable: the pipe or FIFO holds no byte and the eventfd counter is 0.
C2_Coalescing ==
    hstate = "open" =>
       /\ (cpc = "wait" /\ notified) => Readable
       /\ (cpc = "inspect" /\ clean) => (~Readable /\ pipeLen = 0 /\ counter = 0)

\* a Confirm drained, in three reads, a pipe that a Notify had found full
C2_Witness ==
    /\ IsPipeLike /\ hstate = "open" /\ cpc = "inspect" /\ clean
    /\ creads = 3 /\ lastRes = "short"
    /\ \E p \in Producers : Returned(p) /\ nerrno[p] = "EAGAIN"
    /\ ~Readable

\* C3: Notify never blocks. A producer inside Notify is never at a call that
\* can return only after another thread has read or opened the FIFO.
C3_NotifyNeverBlocks ==
    \A p \in Producers :
       /\ (hstate = "open" /\ ppc[p] = "write") => ~NotifyFirstWrite.blocked
       /\ (hstate = "open" /\ ppc[p] = "reopen") => mReadFD \in openFds
       /\ (hstate = "open" /\ ppc[p] = "rewrite")
             => ~PipeWrite(pipeLen, NotifyBytes, tmpFd[p] \in nonblock).blocked

\* C4: in the pipe and FIFO variants a Notify whose write reports "would block"
\* returns success at once: no reopen, no retry, the buffer as it was, and the
\* read descriptor readable.
C4_WouldBlockIsSuccess ==
    [][\A p \in Producers :
          (IsPipeLike /\ ppc[p] = "write" /\ ppc'[p] # "write"
                      /\ nerrno'[p] \in WouldBlock)
             => /\ ppc'[p] = "idle"
                /\ nret'[p] = CHIP_NO_ERROR
                /\ pipeLen' = pipeLen
                /\ openFds' = openFds
                /\ tmpFd' = tmpFd
                /\ Readable']_vars

\* a Notify has returned success from a write that reported "would block"
C4_Witness ==
    /\ IsPipeLike /\ hstate = "open" /\ pipeLen = PipeCap
    /\ \E p \in Producers : Returned(p) /\ nerrno[p] = "EAGAIN"

\* C5: the eventfd counter is the number of successful Notify writes not yet
\* fetched (0 after Open, k after k calls, none lost, none counted twice); a
\* Confirm that fetched a value did so in one read, and the counter is 0 when
\* it returns unless a Notify wrote after the read.
C5_EventfdCounts ==
    (IsEventfd /\ hstate = "open") =>
       /\ counter = unread
       /\ (cpc = "inspect" /\ lastRes = "value")
             => /\ creads = 1
                /\ lastVal >= 1
                /\ ~notified => counter = 0
                /\ notified => counter >= 1

\* one Confirm fetched the count of several Notify calls
C5_Witness ==
    /\ IsEventfd /\ hstate = "open" /\ cpc = "inspect" /\ lastRes = "value"
    /\ clean /\ lastVal >= 2 /\ counter = 0

\* C6: a Confirm entered while the eventfd counter is 0 gets "would block" from
\* its read and the counter stays as it is: the read does not wait.
C6_ConfirmAtZeroWouldBlock ==
    (IsEventfd /\ hstate = "open" /\ cpc = "read" /\ counter = 0)
       => /\ ~ReadEvent.blocked
          /\ ReadEvent.errno \in WouldBlock
          /\ ReadEvent.counter = counter

\* C7: a Notify on an eventfd adds exactly 1 to a counter below the maximum, and
\* at the maximum returns success with the counter left at the maximum.
C7_NotifySaturates ==
    \A p \in Producers :
       (IsEventfd /\ hstate = "open" /\ ppc[p] = "write")
          => LET r == WriteEvent
             IN  /\ ~r.blocked
                 /\ ~NotifyIsError(r)
                 /\ counter < EfdMax => (r.res >= 0 /\ r.counter = counter + 1)
                 /\ counter = EfdMax => (r.counter = EfdMax /\ r.counter > 0)

\* C8: no registration of the multiplexer is on a descriptor that is closed.
C8_NoWatchOnClosedFd ==
    /\ \A w \in watches : w.fd \in openFds
    /\ (mReadFD # -1 /\ mReadFD \notin openFds) => (hstate \in {"closing", "dead"} /\ watches = {})

\* Close has closed the read descriptor
C8_Witness ==
    /\ hstate = "closing" /\ mReadFD # -1 /\ mReadFD \notin openFds
    /\ watches = {}

\* C9: while the handle is open the multiplexer holds exactly one registration,
\* on the read descriptor, calling Confirm with the handle, armed for pending
\* reads; once Close has run there is none.
C9_OneWatch ==
    /\ hstate = "open" =>
          /\ mReadWatch # 0
          /\ watches = {[token |-> mReadWatch, fd |-> mReadFD, cb |-> "Confirm",
                         ctx |-> "this", pendingRead |-> TRUE]}
    /\ (hstate = "closing" /\ cstep >= 1) => watches = {}
    /\ hstate = "closed" => (watches = {} /\ mReadWatch = 0)

\* the registration is in place while a Confirm and a Notify are under way
C9_Witness ==
    /\ hstate = "open" /\ cpc = "read" /\ Cardinality(watches) = 1
    /\ \E p \in Producers : ppc[p] = "write"

\* the kind the specification assigns to the failure of call f of Open
AssignedKind(f) ==
    CASE f \in {"pipe", "eventfd"}                   -> "ResourceExhausted"
      [] f \in {"mkfifo", "open_read", "open_write"} -> "PermissionOrPath"
      [] f \in {"start", "setcb", "reqcb"}           -> "OSFailure"
      [] OTHER                                       -> "unassigned"

\* the kind a caller reads off a returned value: a POSIX value is what a failed
\* pipe or eventfd creation returns, CHIP_ERROR_OPEN_FAILED what a failed mkfifo
\* returns, everything else comes from the multiplexer
KindOfValue(v) ==
    IF v.range = "POSIX" THEN "ResourceExhausted"
    ELSE IF v = CHIP_ERROR_OPEN_FAILED THEN "PermissionOrPath"
    ELSE "OSFailure"

\* C10 as stated: after a failure Open does not return success, and the kind
\* of the failure can be read off the value it returns.
C10_KindsDistinguishable ==
    openFailure # "none" =>
       /\ openResult # CHIP_NO_ERROR
       /\ AssignedKind(openFailure) # "unassigned"
             => KindOfValue(openResult) = AssignedKind(openFailure)

\* C10 as amended: after a failure Open does not return success and the handle
\* is not open; it returns CHIP_ERROR_OPEN_FAILED when mkfifo fails, a POSIX
\* errno value when pipe, eventfd, fcntl or an open of the FIFO fails, and the
\* error of the multiplexer when one of its three calls fails.
C10_OpenErrors ==
    /\ hstate = "open" => (openFailure = "none" /\ openResult = CHIP_NO_ERROR)
    /\ openFailure # "none" =>
          /\ hstate = "failed"
          /\ openResult # CHIP_NO_ERROR
          /\ openFailure = "mkfifo" => openResult = CHIP_ERROR_OPEN_FAILED
          /\ openFailure \in {"pipe", "eventfd", "nb_read", "nb_write",
                              "open_read", "open_write"}
                => (openResult.range = "POSIX" /\ openResult.code \in ErrnoAny \cup ErrnoFcntl)
          /\ openFailure \in {"start", "setcb", "reqcb"}
                => openResult = LayerError(openFailure)

\* Open failed because the FIFO could not be opened for writing
C10_Witness ==
    /\ hstate = "failed" /\ openFailure = "open_write"
    /\ openResult = CHIP_ERROR_POSIX("EMFILE")

\* producer p is back from a Notify
Back(p) == ppc[p] = "idle" /\ nret[p] # NotReturned

\* C11: FIFO variant. A Notify whose first write failed with an error that is
\* not "would block" opens the FIFO for writing once and writes one byte through
\* the new descriptor once; it returns success when that write succeeded and a
\* POSIX error when the open or that write failed; it issues no third write and
\* no second open, and the new descriptor is closed when it returns.
C11_FifoRetryOnce ==
    \A p \in Producers :
       (backend = "fifo" /\ Len(nwrites[p]) >= 1 /\ nwrites[p][1] = "error") =>
          /\ nopens[p] <= 1
          /\ Len(nwrites[p]) <= 2
          /\ ppc[p] = "reopen" => (nopens[p] = 0 /\ Len(nwrites[p]) = 1)
          /\ ppc[p] = "rewrite" => /\ nopens[p] = 1 /\ Len(nwrites[p]) = 1
                                   /\ tmpFd[p] \in openFds
                                   /\ tmpFd[p] \notin {mReadFD, mWriteFD}
          /\ Back(p) =>
                /\ nopens[p] = 1
                /\ tmpFd[p] = -1
                /\ RetryFd(p) \notin openFds
                /\ Len(nwrites[p]) = 2 =>
                      (nret[p] = CHIP_NO_ERROR <=> nwrites[p][2] = "ok")
                /\ nret[p] # CHIP_NO_ERROR => nret[p].range = "POSIX"
                /\ Len(nwrites[p]) = 1 => nret[p] # CHIP_NO_ERROR

\* a Notify has returned success from the write through the new descriptor
C11_Witness ==
    /\ backend = "fifo" /\ hstate = "open"
    /\ \E p \in Producers :
          /\ Back(p) /\ nret[p] = CHIP_NO_ERROR
          /\ nopens[p] = 1 /\ nwrites[p] = <<"error", "ok">>
          /\ tmpFd[p] = -1 /\ RetryFd(p) \notin openFds
    /\ pipeLen >= 1

\* the handle as a successful Open left it: the descriptors it stored are open
\* and the one registration is in place
Intact ==
    /\ hstate = "open"
    /\ mReadFD = FdOf.read /\ mReadFD \in openFds
    /\ IsPipeLike => (mWriteFD = FdOf.write /\ mWriteFD \in openFds)
    /\ mReadWatch = WatchToken
    /\ watches = {[token |-> mReadWatch, fd |-> mReadFD, cb |-> "Confirm",
                   ctx |-> "this", pendingRead |-> TRUE]}

\* C12: a read of Confirm that fails with an error other than "would block" is
\* logged and is the last read of that Confirm; Confirm closes no descriptor
\* and drops no registration, and the handle stays open on the same descriptors
\* for the calls that follow.
C12_ConfirmFailSoft ==
    /\ (cpc = "read" /\ creads >= 1) => (lastRes = "full" /\ ~clogged)
    /\ (cpc = "inspect" /\ lastRes = "error") => (clogged /\ Intact)
    /\ clogged => (cpc = "inspect" /\ lastRes = "error")
    /\ (cfailed /\ hstate = "open") => Intact

\* after a Confirm whose read failed, a later Confirm has fetched what a Notify
\* signalled
C12_Witness ==
    /\ cfailed /\ hstate = "open" /\ cpc = "inspect" /\ ~clogged
    /\ lastRes \in {"short", "value"}
    /\ \E p \in Producers : Back(p) /\ nret[p] = CHIP_NO_ERROR
    /\ Intact

\* C13: a ::close that fails in Close ends the process: Close does not go on
\* and does not return; when it is the close of the read descriptor of a pipe
\* or FIFO, the write descriptor has not been closed and neither member has
\* been set to -1.
C13_CloseFailureFatal ==
    /\ closeFailed => hstate = "dead"
    /\ hstate \in {"closing", "closed"} => ~closeFailed
    /\ hstate = "dead" =>
          /\ closeFailed
          /\ mReadFD = FdOf.read
          /\ IsPipeLike => mWriteFD = FdOf.write
          /\ (IsPipeLike /\ cstep = 1) => (mWriteFD \in openFds /\ mReadFD \in openFds)

\* the close of the read descriptor of a pipe or FIFO has failed
C13_Witness ==
    /\ hstate = "dead" /\ IsPipeLike /\ cstep = 1
    /\ mWriteFD \in openFds /\ mReadFD # -1 /\ mWriteFD # -1

\* C14: when Close has returned, after an Open that succeeded, no descriptor of
\* the handle is open and the handle stores -1 for each: for the read and the
\* write descriptor of a pipe or FIFO, for the one descriptor of an eventfd.
C14_CloseInvalidates ==
    hstate = "closed" =>
       /\ openResult = CHIP_NO_ERROR
       /\ openFds = {}
       /\ mReadFD = -1
       /\ IsPipeLike => mWriteFD = -1

\* Close has returned for a FIFO handle that was notified
C14_Witness ==
    /\ hstate = "closed" /\ backend = "fifo" /\ flag
    /\ FdOf.read \notin openFds /\ FdOf.write \notin openFds
    /\ mReadFD = -1 /\ mWriteFD = -1

\* the descriptors a successful Open leaves open
OwnFds == IF IsPipeLike THEN {FdOf.read, FdOf.write} ELSE {FdOf.read}

\* C15: Notify and Confirm do not change the handle. While the handle is open,
\* on every path, the stored descriptors and the watch token are those Open
\* set, and the descriptors open in the process are those Open left plus the
\* one a Notify that is between its open and its close of the FIFO holds: when
\* a call has returned the set is what it was before the call.
C15_HandleUnchanged ==
    hstate = "open" =>
       /\ mReadFD = FdOf.read
       /\ mWriteFD = (IF IsPipeLike THEN FdOf.write ELSE -1)
       /\ mReadWatch = WatchToken
       /\ openFds = OwnFds \cup {RetryFd(p) : p \in {q \in Producers : ppc[q] = "rewrite"}}
       /\ \A p \in Producers : ppc[p] # "rewrite" => tmpFd[p] = -1

\* a FIFO Notify has returned an error from its second write, and a Confirm
\* whose read failed has returned
C15_Witness ==
    /\ backend = "fifo" /\ hstate = "open" /\ cfailed /\ cpc = "wait"
    /\ \E p \in Producers :
          /\ Back(p) /\ nret[p] # CHIP_NO_ERROR
          /\ nwrites[p] = <<"error", "error">>
    /\ openFds = OwnFds

\* C17 as stated: in the pipe and FIFO variants a Confirm that returns without
\* having logged an error has issued, as its last read, one that reported
\* "would block".
C17_ReadsUntilWouldBlock ==
    (IsPipeLike /\ hstate = "open" /\ cpc = "inspect" /\ ~clogged)
       => lastRes = "wouldblock"

\* C17 as amended: Confirm reads again exactly after a read that filled the
\* 128-byte buffer; a Confirm that returns without having logged an error has
\* issued, as its last read, one that returned fewer bytes than the buffer
\* holds or reported "would block", and that read left the pipe or FIFO empty.
C17_ReadsWhileBufferFull ==
    (IsPipeLike /\ hstate = "open") =>
       /\ (cpc = "read" /\ creads >= 1) => lastRes = "full"
       /\ (cpc = "inspect" /\ ~clogged)
             => /\ creads >= 1
                /\ lastRes \in {"short", "wouldblock"}
                /\ clean => pipeLen = 0

\* a Confirm has returned after one read that fetched the one byte of a Notify
C17_Witness ==
    /\ IsPipeLike /\ hstate = "open" /\ cpc = "inspect" /\ ~clogged
    /\ creads = 1 /\ lastRes = "short" /\ clean /\ pipeLen = 0

\* C18: when Open has returned an error, no descriptor it created is open and
\* no registration it made is left.
C18_FailedOpenLeavesNothing ==
    hstate = "failed" =>
       /\ openFds = {}
       /\ watches = {}

\* C19: two handles that are open do not share what is signalled. The read
\* descriptor of a handle is readable only when Notify has been called on that
\* handle, and a wake signalled through a handle stays readable on it until a
\* Confirm on the same handle reads.
C19_HandlesIndependent ==
    \A h \in Handles :
       tstate[h] = "open" =>
          /\ TwoReadable(h) => tnotified[h]
          /\ tpending[h] => TwoReadable(h)

\* C16: the driver holds at most one network. Count is 0 or 1, an iterator
\* yields at most one item, and AddOrUpdateNetwork with an SSID that differs
\* from a staged SSID that is not empty returns kBoundsExceeded and leaves the
\* staged network as it was.
C16_AtMostOneNetwork ==
    /\ Count \in {0, 1}
    /\ yielded <= 1
    /\ yielded = 1 => exhausted
    /\ (wcall.op = "AddOrUpdateNetwork" /\ wcall.differs)
          => (wcall.ret = "kBoundsExceeded" /\ wcall.kept)

\* with one network staged and yielded by an iterator, AddOrUpdateNetwork was
\* called with another SSID
C16_Witness ==
    /\ wcall.op = "AddOrUpdateNetwork" /\ wcall.differs
    /\ wcall.ret = "kBoundsExceeded" /\ wcall.kept
    /\ Count = 1 /\ iterLive /\ exhausted /\ yielded = 1

\* C20: the store holds, at every moment, the network of the last
\* CommitConfiguration that returned success (no network when none did), so
\* that Init after a restart loads it as saved and as staged network; a
\* CommitConfiguration that returned an error has left the saved network as it
\* was; RevertConfiguration leaves the staged network equal to the saved one.
C20_CommitAllOrNothing ==
    LET d == DriverInit(ZeroNetwork, ZeroNetwork, kvStore)
    IN  /\ View(d.saved) = committed
        /\ View(d.staged) = committed
        /\ (wcall.op = "CommitConfiguration" /\ wcall.ret # CHIP_NO_ERROR)
              => wcall.kept
        /\ wcall.op = "RevertConfiguration" => mStagingNetwork = mSavedNetwork

====
